---- MODULE Spec2Model ----
(***************************************************************************)
(* getDmsObject (DMS package) and completeTask (task package) of the       *)
(* d.velop SDK.  Every call is an async function: it runs synchronously up *)
(* to its single await (the axios request), and its continuation runs when *)
(* the transport resolves or rejects that request.  Several calls may be   *)
(* pending at once; their steps interleave freely.                         *)
(*                                                                         *)
(* JavaScript values are tagged records ([type |-> "undefined"], strings   *)
(* [type |-> "string", str |-> s], objects).  The text of a string is the  *)
(* sequence of its fragments, so that a template literal is \o and the     *)
(* empty string is << >>.                                                  *)
(***************************************************************************)
EXTENDS Integers, Sequences, FiniteSets, TLC

\* Number of call slots (calls that may be pending at the same time).
NumCalls == 2

Calls == 1..NumCalls

-----------------------------------------------------------------------------
\* JavaScript values

Undefined == [type |-> "undefined"]
Null == [type |-> "null"]
Str(s) == [type |-> "string", str |-> s]
\* A non-zero number, as an untyped caller can pass it.
Num == [type |-> "number"]
\* An object of type Task: only its location field is read.
TaskObj(loc) == [type |-> "object", location |-> loc]

\* ToBoolean of the values a task reference can be.
Truthy(v) ==
    CASE v.type = "undefined" -> FALSE
      [] v.type = "null" -> FALSE
      [] v.type = "string" -> v.str # <<>>
      [] OTHER -> TRUE

\* v.location for a truthy v: the field of an object, undefined on a string.
LocationField(v) == IF v.type = "object" THEN v.location ELSE Undefined

-----------------------------------------------------------------------------
\* The inputs of the calls

TheContext == [systemBaseUri |-> "https://umbrella-corp.d-velop.cloud",
               authSessionId |-> "AUTH_SESSION_ID"]

\* Concurrent calls differ in their parameters: call c asks for its own
\* object and completes its own task.
ParamsOf(c) ==
    [repositoryId |-> <<"repo", c>>, sourceId |-> <<"source", c>>,
     dmsObjectId |-> <<"object", c>>]

LocationOf(c) == <<"/some/task/location/", c>>

\* string | Task, plus what an untyped caller can pass
TaskRefs(c) ==
    { Undefined, Null, Str(<<>>), Num, TaskObj(Undefined),
      TaskObj(Str(<<>>)),
      Str(LocationOf(c)), TaskObj(Str(LocationOf(c))) }

\* HTTP statuses of error responses
Statuses == {400, 401, 403, 404, 410, 500}

\* Error objects.  id tells the objects apart: "transport" is the object the
\* rejected request carries, "transform" the one thrown inside a transform,
\* "new" one constructed by the operation itself.
AxiosError(status) ==
    [id |-> "transport", class |-> "AxiosError", isAxiosError |-> TRUE,
     response |-> [type |-> "object", status |-> status],
     message |-> <<"Request failed with status code">>]

\* The request was made but no response arrived.
NetworkError ==
    [id |-> "transport", class |-> "AxiosError", isAxiosError |-> TRUE,
     response |-> Undefined, message |-> <<"Network Error">>]

\* A failure raised before the request left (not created by axios).
PlainError ==
    [id |-> "transport", class |-> "Error", isAxiosError |-> FALSE,
     response |-> Undefined, message |-> <<"socket hang up">>]

Rejections == {AxiosError(s) : s \in Statuses} \cup {NetworkError, PlainError}

\* Bodies of successful getDmsObject responses; Undefined is an empty body.
Bodies ==
    { Undefined,
      [type |-> "object", id |-> "D1", sourceCategories |-> <<"cat1">>,
       sourceProperties |-> <<[key |-> "k1", value |-> "v1"]>>],
      [type |-> "object", id |-> "D2", sourceCategories |-> <<>>,
       sourceProperties |-> <<>>] }

\* response.config.params as the transport hands it back: absent, or the
\* template values of the request.
ConfigParams(request) ==
    { Undefined,
      [type |-> "object", repositoryid |-> request.templates.repositoryid,
       sourceid |-> request.templates.sourceid] }

Responses(request) ==
    { [status |-> 200, config |-> [params |-> p], data |-> d] :
        p \in ConfigParams(request), d \in Bodies }

-----------------------------------------------------------------------------
\* Results of a synchronous evaluation

Return(v) == [kind |-> "return", value |-> v]
Throw(e) == [kind |-> "throw", error |-> e]
Pending == [kind |-> "pending"]

-----------------------------------------------------------------------------
\* getDmsObject: pure parts

\* The transforms a caller can pass.  "default" stands for the omitted
\* argument; the others are caller-supplied functions of the raw response.
CustomTransforms == {"rawStatusAndData", "throwsError", "throwsAxios404"}
Transforms == {"default"} \cup CustomTransforms

\* The error a caller-supplied transform throws.
TransformError(t) ==
    IF t = "throwsAxios404"
    THEN [id |-> "transform", class |-> "AxiosError", isAxiosError |-> TRUE,
          response |-> [type |-> "object", status |-> 404],
          message |-> <<"nested lookup failed">>]
    ELSE [id |-> "transform", class |-> "Error", isAxiosError |-> FALSE,
          response |-> Undefined, message |-> <<"transform failed">>]

\* Reading a property of undefined.
TypeError ==
    [id |-> "transform", class |-> "TypeError", isAxiosError |-> FALSE,
     response |-> Undefined,
     message |-> <<"Cannot read properties of undefined">>]

\* transformGetDmsObjectResponse with the two ids of config.params crossed.
transformGetDmsObjectResponseCrossed(response) ==
    IF response.config.params.type = "undefined" THEN Throw(TypeError)
    ELSE IF response.data.type = "undefined" THEN Throw(TypeError)
    ELSE Return([repositoryId |-> response.config.params.sourceid,
                 sourceId |-> response.config.params.repositoryid,
                 id |-> response.data.id,
                 categories |-> response.data.sourceCategories,
                 properties |-> response.data.sourceProperties])

transformGetDmsObjectResponse(response) ==
    IF response.config.params.type = "undefined" THEN Throw(TypeError)
    ELSE IF response.data.type = "undefined" THEN Throw(TypeError)
    ELSE Return([repositoryId |-> response.config.params.repositoryid,
                 sourceId |-> response.config.params.sourceid,
                 id |-> response.data.id,
                 categories |-> response.data.sourceCategories,
                 properties |-> response.data.sourceProperties])

\* A caller-supplied transform applied to the raw response.
CustomTransform(t, response) ==
    IF t = "rawStatusAndData"
    THEN Return([by |-> t, status |-> response.status, raw |-> response])
    ELSE Throw(TransformError(t))

\* ApplyTransform ignoring the transform the caller passed.
ApplyTransformAlwaysDefault(t, response) ==
    transformGetDmsObjectResponse(response)

\* transform(response)
ApplyTransform(t, response) ==
    IF t = "default" THEN transformGetDmsObjectResponse(response)
    ELSE CustomTransform(t, response)

\* axios.get("/dms", {...})
GetRequest(context, params) ==
    [method |-> "GET", url |-> <<"/dms">>, baseURL |-> context.systemBaseUri,
     authorization |-> <<"Bearer ", context.authSessionId>>,
     accept |-> "application/hal+json",
     follows |-> <<"repo", "dmsobjectwithmapping">>,
     templates |-> [repositoryid |-> params.repositoryId,
                    dmsobjectid |-> params.dmsObjectId,
                    sourceid |-> params.sourceId]]

\* e.response?.status
OptionalStatus(e) ==
    IF e.response.type = "undefined" THEN 0 ELSE e.response.status

\* PrefixMessage without the assignment: e is rethrown as it came.
PrefixMessageDropped(context, e) == e

\* `${context}: ${e.message}` assigned to e.message: the object stays the same.
PrefixMessage(context, e) ==
    [e EXCEPT !.message = <<context, ": ">> \o e.message]

\* new BadRequestError(errorContext, e) and its siblings of the DMS package
DmsError(class, errorContext, e) ==
    [id |-> "new", class |-> class, context |-> errorContext, cause |-> e]

\* GetDmsObjectCatch with the cases of 400 and 404 exchanged.
GetDmsObjectCatchSwapped(e) ==
    LET errorContext == "Failed to get dmsObject" IN
    IF e.isAxiosError /\ OptionalStatus(e) = 400
    THEN DmsError("NotFoundError", errorContext, e)
    ELSE IF e.isAxiosError /\ OptionalStatus(e) = 401
    THEN DmsError("UnauthorizedError", errorContext, e)
    ELSE IF e.isAxiosError /\ OptionalStatus(e) = 404
    THEN DmsError("BadRequestError", errorContext, e)
    ELSE PrefixMessage(errorContext, e)

\* The catch block of getDmsObject: the error the call is rejected with.
GetDmsObjectCatch(e) ==
    LET errorContext == "Failed to get dmsObject" IN
    IF e.isAxiosError /\ OptionalStatus(e) = 400
    THEN DmsError("BadRequestError", errorContext, e)
    ELSE IF e.isAxiosError /\ OptionalStatus(e) = 401
    THEN DmsError("UnauthorizedError", errorContext, e)
    ELSE IF e.isAxiosError /\ OptionalStatus(e) = 404
    THEN DmsError("NotFoundError", errorContext, e)
    ELSE PrefixMessage(errorContext, e)

-----------------------------------------------------------------------------
\* completeTask: pure parts

\* ResolveLocation testing only the types, not that the strings are
\* non-empty.
ResolveLocationAnyString(task) ==
    IF task.type = "string" THEN task
    ELSE IF task.type = "object" /\ task.location.type = "string"
    THEN task.location
    ELSE Undefined

\* The location check: the location string, or Undefined when the call is
\* to fail with NoTaskLocationError.
ResolveLocation(task) ==
    IF Truthy(task) /\ task.type = "string" THEN task
    ELSE IF Truthy(task) /\ Truthy(LocationField(task)) THEN LocationField(task)
    ELSE Undefined

NoTaskLocationError(context, task) ==
    [id |-> "new", class |-> "NoTaskLocationError", context |-> context,
     task |-> task]

\* new UnauthenticatedError(context, e.response) and its siblings of the
\* task package
TaskError(class, context, response) ==
    [id |-> "new", class |-> class, context |-> context, response |-> response]

TaskNotFoundError(context, location, response) ==
    [id |-> "new", class |-> "TaskNotFoundError", context |-> context,
     location |-> location, response |-> response]

TaskAlreadyCompletedError(context, location, response) ==
    [id |-> "new", class |-> "TaskAlreadyCompletedError",
     location |-> location, response |-> response,
     message |-> <<context, ": Task was already completed at location: ">>
                 \o location]

\* axios.post(`${location}/completionState`, { complete: true }, {...})
PostRequest(systemBaseUri, authSessionId, location) ==
    [method |-> "POST", url |-> location \o <<"/completionState">>,
     body |-> [complete |-> TRUE], baseURL |-> systemBaseUri,
     authorization |-> <<"Bearer ", authSessionId>>,
     origin |-> systemBaseUri]

TaskContext == "Failed to complete task"

\* CompleteTaskCatch without the case of 410.
CompleteTaskCatchNo410(location, e) ==
    IF e.response.type # "undefined" /\ e.response.status = 401
    THEN TaskError("UnauthenticatedError", TaskContext, e.response)
    ELSE IF e.response.type # "undefined" /\ e.response.status = 403
    THEN TaskError("UnauthorizedError", TaskContext, e.response)
    ELSE IF e.response.type # "undefined" /\ e.response.status = 404
    THEN TaskNotFoundError(TaskContext, location, e.response)
    ELSE PrefixMessage(TaskContext, e)

\* CompleteTaskCatch without the case of 403.
CompleteTaskCatchNo403(location, e) ==
    IF e.response.type # "undefined" /\ e.response.status = 401
    THEN TaskError("UnauthenticatedError", TaskContext, e.response)
    ELSE IF e.response.type # "undefined" /\ e.response.status = 404
    THEN TaskNotFoundError(TaskContext, location, e.response)
    ELSE IF e.response.type # "undefined" /\ e.response.status = 410
    THEN TaskAlreadyCompletedError(TaskContext, location, e.response)
    ELSE PrefixMessage(TaskContext, e)

\* The catch block of completeTask: the error the call is rejected with.
CompleteTaskCatch(location, e) ==
    IF e.response.type # "undefined" /\ e.response.status = 401
    THEN TaskError("UnauthenticatedError", TaskContext, e.response)
    ELSE IF e.response.type # "undefined" /\ e.response.status = 403
    THEN TaskError("UnauthorizedError", TaskContext, e.response)
    ELSE IF e.response.type # "undefined" /\ e.response.status = 404
    THEN TaskNotFoundError(TaskContext, location, e.response)
    ELSE IF e.response.type # "undefined" /\ e.response.status = 410
    THEN TaskAlreadyCompletedError(TaskContext, location, e.response)
    ELSE PrefixMessage(TaskContext, e)

-----------------------------------------------------------------------------
\* State

VARIABLES
    pc,            \* per call: "idle", "await" (request pending), "done"
    op,            \* per call: "none", "getDmsObject", "completeTask"
    args,          \* per call: the arguments it was called with
    location,      \* per call: the local variable location of completeTask
    requests,      \* per call: the HTTP requests it issued, in order
    settled,       \* per call: how its request ended (response or error)
    transformLog,  \* per call: the invocations of the transform
    outcome        \* per call: Pending, Return(value) or Throw(error)

vars == <<pc, op, args, location, requests, settled, transformLog, outcome>>

Init ==
    /\ pc = [c \in Calls |-> "idle"]
    /\ op = [c \in Calls |-> "none"]
    /\ args = [c \in Calls |-> Undefined]
    /\ location = [c \in Calls |-> Undefined]
    /\ requests = [c \in Calls |-> <<>>]
    /\ settled = [c \in Calls |-> Pending]
    /\ transformLog = [c \in Calls |-> <<>>]
    /\ outcome = [c \in Calls |-> Pending]

\* getDmsObject(context, params, transform) up to its await
GetDmsObjectCall(c, context, params, transform) ==
    /\ pc[c] = "idle"
    /\ op' = [op EXCEPT ![c] = "getDmsObject"]
    /\ args' = [args EXCEPT ![c] = [type |-> "object", context |-> context,
                                    params |-> params, transform |-> transform]]
    /\ requests' = [requests EXCEPT
                      ![c] = Append(@, GetRequest(context, params))]
    /\ pc' = [pc EXCEPT ![c] = "await"]
    /\ UNCHANGED <<location, settled, transformLog, outcome>>

\* The responses the transport can resolve the pending request of c with.
ResponsesFor(c) == Responses(requests[c][Len(requests[c])])

\* GetDmsObjectFulfilled with the transform applied after the try block:
\* what it throws reaches the caller as it is.
GetDmsObjectFulfilledOutsideTry(c, response) ==
    /\ pc[c] = "await" /\ op[c] = "getDmsObject"
    /\ response \in ResponsesFor(c)
    /\ LET result == ApplyTransform(args[c].transform, response) IN
        /\ transformLog' = [transformLog EXCEPT
              ![c] = Append(@, [fn |-> args[c].transform, arg |-> response,
                                result |-> result])]
        /\ outcome' = [outcome EXCEPT ![c] = result]
    /\ settled' = [settled EXCEPT ![c] = Return(response)]
    /\ pc' = [pc EXCEPT ![c] = "done"]
    /\ UNCHANGED <<op, args, location, requests>>

\* The request resolved: return transform(response), inside the try block.
GetDmsObjectFulfilled(c, response) ==
    /\ pc[c] = "await" /\ op[c] = "getDmsObject"
    /\ response \in ResponsesFor(c)
    /\ LET result == ApplyTransform(args[c].transform, response) IN
        /\ transformLog' = [transformLog EXCEPT
              ![c] = Append(@, [fn |-> args[c].transform, arg |-> response,
                                result |-> result])]
        /\ outcome' = [outcome EXCEPT
              ![c] = IF result.kind = "throw"
                     THEN Throw(GetDmsObjectCatch(result.error))
                     ELSE result]
    /\ settled' = [settled EXCEPT ![c] = Return(response)]
    /\ pc' = [pc EXCEPT ![c] = "done"]
    /\ UNCHANGED <<op, args, location, requests>>

\* GetDmsObjectRejected trying the request a second time before giving up.
GetDmsObjectRejectedRetry(c, e) ==
    /\ pc[c] = "await" /\ op[c] = "getDmsObject"
    /\ IF Len(requests[c]) < 2
       THEN /\ requests' = [requests EXCEPT ![c] = Append(@, @[1])]
            /\ UNCHANGED <<pc, outcome, settled>>
       ELSE /\ outcome' = [outcome EXCEPT ![c] = Throw(GetDmsObjectCatch(e))]
            /\ settled' = [settled EXCEPT ![c] = Throw(e)]
            /\ pc' = [pc EXCEPT ![c] = "done"]
            /\ UNCHANGED requests
    /\ UNCHANGED <<op, args, location, transformLog>>

\* The request was rejected with e: the catch block.
GetDmsObjectRejected(c, e) ==
    /\ pc[c] = "await" /\ op[c] = "getDmsObject"
    /\ outcome' = [outcome EXCEPT ![c] = Throw(GetDmsObjectCatch(e))]
    /\ settled' = [settled EXCEPT ![c] = Throw(e)]
    /\ pc' = [pc EXCEPT ![c] = "done"]
    /\ UNCHANGED <<op, args, location, requests, transformLog>>

\* completeTask(systemBaseUri, authSessionId, task) up to its await, or to
\* the throw of the location check
CompleteTaskCall(c, systemBaseUri, authSessionId, task) ==
    /\ pc[c] = "idle"
    /\ op' = [op EXCEPT ![c] = "completeTask"]
    /\ args' = [args EXCEPT ![c] = [type |-> "object",
                                    systemBaseUri |-> systemBaseUri,
                                    authSessionId |-> authSessionId,
                                    task |-> task]]
    /\ LET loc == ResolveLocation(task) IN
        IF loc.type = "undefined"
        THEN /\ outcome' = [outcome EXCEPT
                  ![c] = Throw(NoTaskLocationError(TaskContext, task))]
             /\ pc' = [pc EXCEPT ![c] = "done"]
             /\ UNCHANGED <<location, requests>>
        ELSE /\ location' = [location EXCEPT ![c] = loc]
             /\ requests' = [requests EXCEPT
                  ![c] = Append(@, PostRequest(systemBaseUri, authSessionId,
                                               loc.str))]
             /\ pc' = [pc EXCEPT ![c] = "await"]
             /\ UNCHANGED outcome
    /\ UNCHANGED <<settled, transformLog>>

\* The POST resolved: the function returns nothing.
CompleteTaskFulfilled(c) ==
    /\ pc[c] = "await" /\ op[c] = "completeTask"
    /\ outcome' = [outcome EXCEPT ![c] = Return(Undefined)]
    /\ settled' = [settled EXCEPT ![c] = Return([status |-> 200])]
    /\ pc' = [pc EXCEPT ![c] = "done"]
    /\ UNCHANGED <<op, args, location, requests, transformLog>>

\* CompleteTaskRejected with location a variable of the module, shared by
\* the calls, instead of a local one.
CompleteTaskRejectedSharedLocation(c, e) ==
    /\ pc[c] = "await" /\ op[c] = "completeTask"
    /\ LET d == CHOOSE d \in Calls : location[d].type = "string" IN
        outcome' = [outcome EXCEPT
          ![c] = Throw(CompleteTaskCatch(location[d].str, e))]
    /\ settled' = [settled EXCEPT ![c] = Throw(e)]
    /\ pc' = [pc EXCEPT ![c] = "done"]
    /\ UNCHANGED <<op, args, location, requests, transformLog>>

\* The POST was rejected with e: the catch block.
CompleteTaskRejected(c, e) ==
    /\ pc[c] = "await" /\ op[c] = "completeTask"
    /\ outcome' = [outcome EXCEPT
          ![c] = Throw(CompleteTaskCatch(location[c].str, e))]
    /\ settled' = [settled EXCEPT ![c] = Throw(e)]
    /\ pc' = [pc EXCEPT ![c] = "done"]
    /\ UNCHANGED <<op, args, location, requests, transformLog>>

AllResponses ==
    UNION {Responses(GetRequest(TheContext, ParamsOf(c))) : c \in Calls}

Next ==
    \/ \E c \in Calls, transform \in Transforms :
          GetDmsObjectCall(c, TheContext, ParamsOf(c), transform)
    \/ \E c \in Calls, response \in AllResponses :
          GetDmsObjectFulfilled(c, response)
    \/ \E c \in Calls, e \in Rejections : GetDmsObjectRejected(c, e)
    \/ \E c \in Calls : \E task \in TaskRefs(c) :
          CompleteTaskCall(c, TheContext.systemBaseUri,
                           TheContext.authSessionId, task)
    \/ \E c \in Calls : CompleteTaskFulfilled(c)
    \/ \E c \in Calls, e \in Rejections : CompleteTaskRejected(c, e)

Spec == Init /\ [][Next]_vars

-----------------------------------------------------------------------------
\* Properties

Done(c, o) == op[c] = o /\ pc[c] = "done"

\* The request of call c was rejected with an error response of this status.
RejectedWith(c, status) ==
    /\ settled[c].kind = "throw"
    /\ settled[c].error.response.type = "object"
    /\ settled[c].error.response.status = status

\* The original error e, the same object, with the context put before its
\* message.
Annotated(context, e) ==
    [id |-> e.id, class |-> e.class, isAxiosError |-> e.isAxiosError,
     response |-> e.response, message |-> <<context, ": ">> \o e.message]

IsNonEmptyString(v) == v.type = "string" /\ Len(v.str) > 0

\* A task reference that yields a location: a non-empty string, or an object
\* whose location is one.
HasLocation(task) ==
    \/ IsNonEmptyString(task)
    \/ task.type = "object" /\ IsNonEmptyString(task.location)

\* The text of the location a task reference resolves to.
LocationText(task) ==
    IF task.type = "string" THEN task.str ELSE task.location.str

\* C1: completeTask with a task reference that is neither a non-empty string
\* nor an object with a non-empty location fails with NoTaskLocationError,
\* and the call issues no HTTP request.
MissingLocationFailsLocally ==
    \A c \in Calls :
        (op[c] = "completeTask" /\ ~HasLocation(args[c].task)) =>
            /\ pc[c] = "done"
            /\ outcome[c].kind = "throw"
            /\ outcome[c].error.class = "NoTaskLocationError"
            /\ requests[c] = <<>>
            /\ settled[c] = Pending

MissingLocationReached ==
    \E c \in Calls :
        /\ Done(c, "completeTask")
        /\ args[c].task = TaskObj(Str(<<>>))
        /\ outcome[c].kind = "throw"

TaskErrorClass(status) ==
    CASE status = 401 -> "UnauthenticatedError"
      [] status = 403 -> "UnauthorizedError"
      [] status = 404 -> "TaskNotFoundError"
      [] status = 410 -> "TaskAlreadyCompletedError"

\* C2: completeTask with a location L: a rejection with status 401, 403, 404
\* or 410 yields UnauthenticatedError, UnauthorizedError, TaskNotFoundError or
\* TaskAlreadyCompletedError, a new object and not the original error; the
\* 404 and 410 errors carry exactly L; a success yields no value.
CompleteTaskStatusMapping ==
    \A c \in Calls :
        (Done(c, "completeTask") /\ HasLocation(args[c].task)) =>
            /\ settled[c].kind = "return" => outcome[c] = Return(Undefined)
            /\ \A status \in {401, 403, 404, 410} :
                RejectedWith(c, status) =>
                    /\ outcome[c].kind = "throw"
                    /\ outcome[c].error.id = "new"
                    /\ outcome[c].error.class = TaskErrorClass(status)
                    /\ outcome[c].error.response = settled[c].error.response
                    /\ status \in {404, 410} =>
                        outcome[c].error.location = LocationText(args[c].task)

AlreadyCompletedReached ==
    \E c \in Calls :
        /\ Done(c, "completeTask")
        /\ args[c].task = TaskObj(Str(LocationOf(c)))
        /\ RejectedWith(c, 410)
        /\ outcome[c].error.location = LocationOf(c)

DmsErrorClass(status) ==
    CASE status = 400 -> "BadRequestError"
      [] status = 401 -> "UnauthorizedError"
      [] status = 404 -> "NotFoundError"

\* C3: getDmsObject: a rejection with status 400, 401 or 404 yields
\* BadRequestError, UnauthorizedError or NotFoundError, a new object and not
\* the original error; no value is returned and the transform is not invoked.
GetDmsObjectStatusMapping ==
    \A c \in Calls : \A status \in {400, 401, 404} :
        (Done(c, "getDmsObject") /\ RejectedWith(c, status)) =>
            /\ outcome[c].kind = "throw"
            /\ outcome[c].error.id = "new"
            /\ outcome[c].error.class = DmsErrorClass(status)
            /\ outcome[c].error.cause = settled[c].error
            /\ transformLog[c] = <<>>

BadRequestReached ==
    \E c \in Calls :
        /\ Done(c, "getDmsObject")
        /\ RejectedWith(c, 400)
        /\ outcome[c].error.class = "BadRequestError"

\* C4: for getDmsObject and for completeTask, a rejection with status 403
\* yields a typed unauthorized error, not the original error passed through.
ForbiddenIsTypedEverywhere ==
    \A c \in Calls :
        (pc[c] = "done" /\ RejectedWith(c, 403)) =>
            /\ outcome[c].kind = "throw"
            /\ outcome[c].error.id = "new"
            /\ outcome[c].error.class = "UnauthorizedError"

\* C4 as the code has it: completeTask maps 403 to UnauthorizedError;
\* getDmsObject has no case for 403 and passes the original error through
\* with the context before its message.
ForbiddenPerOperation ==
    \A c \in Calls :
        (pc[c] = "done" /\ RejectedWith(c, 403)) =>
            /\ outcome[c].kind = "throw"
            /\ op[c] = "completeTask" =>
                /\ outcome[c].error.id = "new"
                /\ outcome[c].error.class = "UnauthorizedError"
            /\ op[c] = "getDmsObject" =>
                outcome[c].error =
                    Annotated("Failed to get dmsObject", settled[c].error)

ForbiddenReached ==
    /\ \E c \in Calls : Done(c, "completeTask") /\ RejectedWith(c, 403)
    /\ \E c \in Calls : Done(c, "getDmsObject") /\ RejectedWith(c, 403)

\* C5: getDmsObject with a caller-supplied transform and a successful
\* request: the transform is invoked exactly once, with the raw response, and
\* what it returns is what the caller receives.
CustomTransformGetsRawResponse ==
    \A c \in Calls :
        (/\ Done(c, "getDmsObject")
         /\ args[c].transform \in CustomTransforms
         /\ settled[c].kind = "return") =>
            /\ Len(transformLog[c]) = 1
            /\ transformLog[c][1].fn = args[c].transform
            /\ transformLog[c][1].arg = settled[c].value
            /\ transformLog[c][1].result.kind = "return" =>
                outcome[c] = transformLog[c][1].result
            /\ args[c].transform = "rawStatusAndData" =>
                outcome[c] = Return([by |-> "rawStatusAndData",
                                     status |-> settled[c].value.status,
                                     raw |-> settled[c].value])

CustomTransformReached ==
    \E c \in Calls :
        /\ Done(c, "getDmsObject")
        /\ args[c].transform = "rawStatusAndData"
        /\ outcome[c].kind = "return"
        /\ outcome[c].value.raw.data.type = "object"

\* The response has the parts the default transform reads.
WellFormed(response) ==
    response.config.params.type = "object" /\ response.data.type = "object"

Mapped(o, e) ==
    /\ e.response.type = "object"
    /\ IF o = "getDmsObject"
       THEN e.isAxiosError /\ e.response.status \in {400, 401, 404}
       ELSE e.response.status \in {401, 403, 404, 410}

ContextOf(o) ==
    IF o = "getDmsObject" THEN "Failed to get dmsObject"
    ELSE "Failed to complete task"

\* C7: a request failure outside the typed status mapping of the operation
\* (no response, or an unmapped status) reaches the caller as the same error
\* object, its message now the context string, ": " and the original message.
UnmappedFailurePassedThrough ==
    \A c \in Calls :
        (/\ pc[c] = "done"
         /\ settled[c].kind = "throw"
         /\ ~Mapped(op[c], settled[c].error)) =>
            outcome[c] = Throw(Annotated(ContextOf(op[c]), settled[c].error))

PassThroughReached ==
    /\ \E c \in Calls :
        /\ Done(c, "getDmsObject")
        /\ RejectedWith(c, 500)
        /\ outcome[c].error.message =
            <<"Failed to get dmsObject", ": ",
              "Request failed with status code">>
    /\ \E c \in Calls :
        /\ Done(c, "completeTask")
        /\ settled[c] = Throw(NetworkError)
        /\ outcome[c].error.message =
            <<"Failed to complete task", ": ", "Network Error">>

\* C8: a call of getDmsObject, and a call of completeTask that passes the
\* location check, issues exactly one request (completeTask: a POST to
\* <location>/completionState with body {complete: true}); once the request
\* has succeeded or failed the call has issued no further request and has
\* exactly one outcome.
ExactlyOneRequest ==
    \A c \in Calls :
        (\/ op[c] = "getDmsObject"
         \/ op[c] = "completeTask" /\ HasLocation(args[c].task)) =>
            /\ Len(requests[c]) = 1
            /\ op[c] = "getDmsObject" => requests[c][1].method = "GET"
            /\ op[c] = "completeTask" =>
                /\ requests[c][1].method = "POST"
                /\ requests[c][1].url =
                    LocationText(args[c].task) \o <<"/completionState">>
                /\ requests[c][1].body = [complete |-> TRUE]
            /\ pc[c] \in {"await", "done"}
            /\ pc[c] = "await" <=> settled[c] = Pending
            /\ pc[c] = "await" <=> outcome[c] = Pending
            /\ pc[c] = "done" => outcome[c].kind \in {"return", "throw"}

OneRequestReached ==
    /\ \E c \in Calls :
        Done(c, "getDmsObject") /\ settled[c].kind = "throw"
          /\ Len(requests[c]) = 1
    /\ \E c \in Calls :
        Done(c, "completeTask") /\ settled[c].kind = "return"
          /\ Len(requests[c]) = 1

\* What a call yields, from its own arguments a and the way s its own
\* request ended.
OwnOutcome(o, a, s) ==
    IF o = "getDmsObject"
    THEN IF s.kind = "throw" THEN Throw(GetDmsObjectCatch(s.error))
         ELSE LET r == ApplyTransform(a.transform, s.value) IN
              IF r.kind = "throw" THEN Throw(GetDmsObjectCatch(r.error))
              ELSE r
    ELSE IF ~HasLocation(a.task)
         THEN Throw(NoTaskLocationError(TaskContext, a.task))
         ELSE IF s.kind = "return" THEN Return(Undefined)
         ELSE Throw(CompleteTaskCatch(LocationText(a.task), s.error))

\* C9: with calls pending at the same time, under every interleaving of their
\* requests and responses, the outcome of each call is determined by its own
\* arguments and its own response.
CallsDoNotInterfere ==
    \A c \in Calls :
        /\ pc[c] = "done" => outcome[c] = OwnOutcome(op[c], args[c], settled[c])
        /\ pc[c] # "done" => outcome[c] = Pending
        /\ op[c] = "completeTask" /\ HasLocation(args[c].task) =>
            location[c].str = LocationText(args[c].task)

\* Two calls were pending together and both ended, with their own locations.
InterleavedCallsReached ==
    \E c, d \in Calls :
        /\ c # d
        /\ Done(c, "completeTask") /\ RejectedWith(c, 404)
        /\ Done(d, "completeTask") /\ RejectedWith(d, 410)
        /\ outcome[c].error.location = LocationOf(c)
        /\ outcome[d].error.location = LocationOf(d)

\* The transform of call c threw.
TransformThrew(c) ==
    /\ Done(c, "getDmsObject")
    /\ settled[c].kind = "return"
    /\ Len(transformLog[c]) = 1
    /\ transformLog[c][1].result.kind = "throw"

\* C10: getDmsObject whose transform throws: the error is never turned into
\* BadRequestError, UnauthorizedError or NotFoundError; it reaches the caller
\* as the same object with "Failed to get dmsObject: " before its message,
\* and no second request is issued.
TransformErrorNeverTyped ==
    \A c \in Calls :
        TransformThrew(c) =>
            /\ outcome[c] = Throw(Annotated("Failed to get dmsObject",
                                            transformLog[c][1].result.error))
            /\ Len(requests[c]) = 1

\* C10 as the code has it: the error thrown by the transform goes through
\* the catch block of the request.  If it is an axios error carrying a
\* response of status 400, 401 or 404 it is turned into the typed error of
\* that status; otherwise it reaches the caller as the same object with the
\* context before its message.  It never surfaces unchanged and no second
\* request is issued.
TransformErrorTakesCatchPath ==
    \A c \in Calls :
        TransformThrew(c) =>
            LET e == transformLog[c][1].result.error IN
            /\ outcome[c].kind = "throw"
            /\ outcome[c].error # e
            /\ Mapped("getDmsObject", e) =>
                /\ outcome[c].error.id = "new"
                /\ outcome[c].error.class = DmsErrorClass(e.response.status)
                /\ outcome[c].error.cause = e
            /\ ~Mapped("getDmsObject", e) =>
                outcome[c].error = Annotated("Failed to get dmsObject", e)
            /\ Len(requests[c]) = 1

TransformThrewReached ==
    /\ \E c \in Calls :
        /\ TransformThrew(c)
        /\ args[c].transform = "default"
        /\ outcome[c].error.class = "TypeError"
    /\ \E c \in Calls :
        /\ TransformThrew(c)
        /\ args[c].transform = "throwsAxios404"
        /\ outcome[c].error.class = "NotFoundError"

====
